---- MODULE Spec2Model ----
(***************************************************************************)
(* Model of service-python/app/main.py: the table region merge scan, the   *)
(* table reconstruction from positioned text items, the region-scoped      *)
(* reconstruction, 1-D clustering, the two-candidate text merge, the       *)
(* corner ordering of a quadrilateral, and the request handler with its    *)
(* preprocessing pipelines and lazily built recognition engines.           *)
(*                                                                         *)
(* Numbers.  Where the code computes in Python floats the model computes   *)
(* in exact rationals: a float is a reduced fraction [n, d] with d > 0,    *)
(* and every comparison of the code is the same comparison on fractions.   *)
(* A text score is kept times 1000 and a confidence in thousandths.        *)
(*                                                                         *)
(* Text.  A text is a sequence of one-character strings, so that strip,    *)
(* split, lower-casing and character classes are computed, not assumed.    *)
(***************************************************************************)
EXTENDS Integers, Sequences, FiniteSets, TLC

VARIABLES
    pc,               \* "call": inputs chosen, function not yet run; "done": returned
    img,              \* [w, h]: size of the thresholded image (thr.shape)
    contours,         \* bounding rectangles of the external contours, in cv2's order
    regions,          \* value returned by _detect_table_regions
    boxes,            \* argument of _reconstruct_table_from_boxes
    table,            \* value returned by _reconstruct_table_from_boxes
    lines,            \* page_res["lines"] of _extract_tables_from_paddle_page
    tables,           \* value returned by _extract_tables_from_paddle_page
    values,           \* argument of _cluster_1d
    tol,              \* argument of _cluster_1d
    centers,          \* value returned by _cluster_1d
    struct_text,      \* arguments of _merge_text
    paddle_text,
    paddle_avg_conf,
    merged_text,      \* value returned by _merge_text
    pts,              \* argument of _order_points: 4 points in contour order
    rect,             \* value returned by _order_points
    running,          \* request whose coroutine holds the event loop, 0: none
    req,              \* per request: parameters, position and locals of ocr_extract
    handle,           \* _paddle_ocr_singleton and _ppstructure_singleton
    built             \* per handle: how many times a constructed engine was stored

vars == <<pc, img, contours, regions, boxes, table, lines, tables,
          values, tol, centers, struct_text, paddle_text, paddle_avg_conf,
          merged_text, pts, rect, running, req, handle, built>>

\* The arguments and results of the table and text functions.
fnVars == <<img, contours, regions, boxes, table, lines, tables, values, tol,
            centers, struct_text, paddle_text, paddle_avg_conf, merged_text>>

\* The variables of the corner ordering.
orderVars == <<pts, rect>>

\* The variables of the request handler.
handlerVars == <<running, req, handle, built>>

restVars == <<orderVars, handlerVars>>

None == "None"

\* Optional[Dict]: the empty list for None, a one-element list for a value.
NoTable == <<>>

Some(t) == <<t>>

\* float("inf"): greater than every fraction under FLt.
Inf == [n |-> 1, d |-> 0]

(***************************************************************************)
(* Generic helpers: Python built-ins the code uses.                        *)
(***************************************************************************)
Max(a, b) == IF a >= b THEN a ELSE b

Min(a, b) == IF a <= b THEN a ELSE b

Abs(a) == IF a >= 0 THEN a ELSE -a

RECURSIVE Gcd(_, _)
Gcd(a, b) == IF b = 0 THEN a ELSE Gcd(b, a % b)


\* All sequences over S of length 0..n.
SeqsUpTo(S, n) == UNION {[1..k -> S] : k \in 0..n}

\* A float: the reduced fraction n/d, d > 0.
Frac(n, d) == LET g == Gcd(Abs(n), d) IN [n |-> n \div g, d |-> d \div g]

F(i) == [n |-> i, d |-> 1]

FAdd(a, b) == Frac(a.n * b.d + b.n * a.d, a.d * b.d)

FSub(a, b) == Frac(a.n * b.d - b.n * a.d, a.d * b.d)

\* a * (p/q) and a / k for integers p, q, k > 0
FScale(a, p, q) == Frac(a.n * p, a.d * q)

FAbs(a) == [n |-> Abs(a.n), d |-> a.d]

FLe(a, b) == a.n * b.d <= b.n * a.d

FLt(a, b) == a.n * b.d < b.n * a.d

\* max(a, b) of two floats
FMax(a, b) == IF FLt(a, b) THEN b ELSE a

\* min(a, b) of two floats
FMin(a, b) == IF FLt(b, a) THEN b ELSE a

RECURSIVE FSum(_)
FSum(s) == IF s = <<>> THEN F(0) ELSE FAdd(Head(s), FSum(Tail(s)))

\* sum(c) / len(c)
Mean(c) == FScale(FSum(c), 1, Len(c))

\* list.sort / sorted with a key, on the list of keys: the permutation that
\* sorts it.  A key is a pair <<k1, k2>> compared lexicographically; the sort
\* is stable: an index goes behind every index whose key is less or equal.
KeyLe(a, b) == FLt(a[1], b[1]) \/ (a[1] = b[1] /\ FLe(a[2], b[2]))

RECURSIVE InsertIdx(_, _, _)
InsertIdx(i, p, keys) ==
    IF p = <<>> THEN <<i>>
    ELSE IF KeyLe(keys[Head(p)], keys[i])
         THEN <<Head(p)>> \o InsertIdx(i, Tail(p), keys)
         ELSE <<i>> \o p

RECURSIVE SortPerm(_, _)
SortPerm(keys, n) ==
    IF n = 0 THEN <<>> ELSE InsertIdx(n, SortPerm(keys, n - 1), keys)

SortedByKeys(s, keys) ==
    LET p == SortPerm(keys, Len(s)) IN [i \in 1..Len(s) |-> s[p[i]]]

(***************************************************************************)
(* _detect_table_regions: contour filter, sort, merge scan.                *)
(* The morphology that finds the contours is cv2's; the model starts from  *)
(* the contours' bounding rectangles (cv2.boundingRect).                   *)
(***************************************************************************)
MinRegionArea == 5000

\* int(0.01 * w * h), int(0.2 * w), int(0.08 * h)
MinArea(im) == Max(MinRegionArea, (im.w * im.h) \div 100)

KeepContour(c, im) ==
    /\ ~(c.w * c.h < MinArea(im))
    /\ ~(c.w < (2 * im.w) \div 10 \/ c.h < (8 * im.h) \div 100)

RECURSIVE FilterContours(_, _)
FilterContours(cs, im) ==
    IF cs = <<>> THEN <<>>
    ELSE (IF KeepContour(Head(cs), im) THEN <<Head(cs)>> ELSE <<>>)
         \o FilterContours(Tail(cs), im)

\* regions.sort(key=lambda r: (r["y"], r["x"]))
SortRegions(rs) == SortedByKeys(rs, [i \in 1..Len(rs) |-> <<F(rs[i].y), F(rs[i].x)>>])

\* ix1 > ix0 and iy1 > iy0
Intersects(r, m) ==
    /\ Min(r.x + r.w, m.x + m.w) > Max(r.x, m.x)
    /\ Min(r.y + r.h, m.y + m.h) > Max(r.y, m.y)

\* Mutant of UnionRect: the region grows to the right and left only.
UnionRectKeepsHeight(r, m) ==
    LET nx0 == Min(r.x, m.x)
        nx1 == Max(r.x + r.w, m.x + m.w)
    IN  [x |-> nx0, y |-> m.y, w |-> nx1 - nx0, h |-> m.h]

\* The rectangle written back into m.
UnionRect(r, m) ==
    LET nx0 == Min(r.x, m.x)
        ny0 == Min(r.y, m.y)
        nx1 == Max(r.x + r.w, m.x + m.w)
        ny1 == Max(r.y + r.h, m.y + m.h)
    IN  [x |-> nx0, y |-> ny0, w |-> nx1 - nx0, h |-> ny1 - ny0]

\* One iteration of "for r in regions": merge r into the first region of
\* merged it intersects, else append it.
MergeOne(merged, r) ==
    LET hits == {i \in 1..Len(merged) : Intersects(r, merged[i])}
    IN  IF hits = {} THEN Append(merged, r)
        ELSE LET i == CHOOSE k \in hits : \A j \in hits : k <= j
             IN  [merged EXCEPT ![i] = UnionRect(r, merged[i])]

RECURSIVE MergeScan(_, _)
MergeScan(merged, rs) ==
    IF rs = <<>> THEN merged
    ELSE MergeScan(MergeOne(merged, Head(rs)), Tail(rs))

DetectTableRegions(cs, im) ==
    IF im.h < 10 \/ im.w < 10 THEN <<>>
    ELSE MergeScan(<<>>, SortRegions(FilterContours(cs, im)))

(***************************************************************************)
(* _cluster_1d and _assign_to_nearest.                                     *)
(***************************************************************************)
\* Mutant of SortValues: the values are clustered in the order given.
SortValuesOmitted(vs) == vs

\* v = sorted(values)
SortValues(vs) == SortedByKeys(vs, [i \in 1..Len(vs) |-> <<vs[i], F(0)>>])

\* The loop "for x in v[1:]" over the list of clusters.
RECURSIVE ClusterScan(_, _, _)
ClusterScan(clusters, rest, t) ==
    IF rest = <<>> THEN clusters
    ELSE LET x == Head(rest)
             k == Len(clusters)
             last == clusters[k][Len(clusters[k])]
         IN  IF FLe(FAbs(FSub(x, last)), t)
             THEN ClusterScan([clusters EXCEPT ![k] = Append(@, x)], Tail(rest), t)
             ELSE ClusterScan(Append(clusters, <<x>>), Tail(rest), t)

Cluster1d(vs, t) ==
    IF vs = <<>> THEN <<>>
    ELSE LET v == SortValues(vs)
             clusters == ClusterScan(<<<<v[1]>>>>, Tail(v), t)
         IN  [i \in 1..Len(clusters) |-> Mean(clusters[i])]

\* The loop of _assign_to_nearest from index i on: best_i is replaced only by
\* a strictly smaller distance.
RECURSIVE NearestScan(_, _, _, _, _)
NearestScan(value, cs, i, best_i, best_d) ==
    IF i > Len(cs) THEN best_i
    ELSE LET d == FAbs(FSub(value, cs[i]))
         IN  IF FLt(d, best_d)
             THEN NearestScan(value, cs, i + 1, i, d)
             ELSE NearestScan(value, cs, i + 1, best_i, best_d)

\* Index (1-based in the model, 0-based in the code) of the nearest center.
AssignToNearest(value, cs) == NearestScan(value, cs, 1, 1, Inf)

(***************************************************************************)
(* Text helpers: str.strip, truthiness of a string, f"col_{i+1}".          *)
(***************************************************************************)
IsSpace(ch) == ch \in {" ", "\t", "\n", "\r"}

RECURSIVE LStrip(_)
LStrip(t) == IF t # <<>> /\ IsSpace(Head(t)) THEN LStrip(Tail(t)) ELSE t

RECURSIVE RStrip(_)
RStrip(t) ==
    IF t # <<>> /\ IsSpace(t[Len(t)]) THEN RStrip(SubSeq(t, 1, Len(t) - 1)) ELSE t

Strip(t) == RStrip(LStrip(t))

DigitChars == <<"0", "1", "2", "3", "4", "5", "6", "7", "8", "9">>

\* str(i) for i >= 0
RECURSIVE Str(_)
Str(i) == IF i < 10 THEN <<DigitChars[i + 1]>>
          ELSE Str(i \div 10) \o <<DigitChars[(i % 10) + 1]>>

\* f"col_{i+1}", i the 0-based column index: ColLabel(k) for the k-th column.
ColLabel(k) == <<"c", "o", "l", "_">> \o Str(k)

(***************************************************************************)
(* _polygon_to_bbox                                                        *)
(***************************************************************************)
RECURSIVE FMinSeq(_)
FMinSeq(s) ==
    IF Len(s) = 1 THEN s[1]
    ELSE LET r == FMinSeq(Tail(s)) IN IF FLt(r, Head(s)) THEN r ELSE Head(s)

RECURSIVE FMaxSeq(_)
FMaxSeq(s) ==
    IF Len(s) = 1 THEN s[1]
    ELSE LET r == FMaxSeq(Tail(s)) IN IF FLt(Head(s), r) THEN r ELSE Head(s)

PolygonToBbox(polygon) ==
    LET xs == [i \in 1..Len(polygon) |-> polygon[i].x]
        ys == [i \in 1..Len(polygon) |-> polygon[i].y]
        x0 == FMinSeq(xs)
        x1 == FMaxSeq(xs)
        y0 == FMinSeq(ys)
        y1 == FMaxSeq(ys)
    IN  [x |-> x0, y |-> y0,
         w |-> FMax(F(0), FSub(x1, x0)), h |-> FMax(F(0), FSub(y1, y0)),
         x_center |-> FScale(FAdd(x0, x1), 1, 2),
         y_center |-> FScale(FAdd(y0, y1), 1, 2),
         x2 |-> x1, y2 |-> y1]

(***************************************************************************)
(* _reconstruct_table_from_boxes                                           *)
(***************************************************************************)
\* Mutant of MinBoxes: the comparison is off by one, five items are enough.
MinBoxesOffByOne == 6 - 1

MinBoxes == 6

\* np.median: the middle of the sorted values, or the mean of the two middles.
Median(vs) ==
    LET v == SortValues(vs)
        n == Len(v)
    IN  IF n % 2 = 1 THEN v[(n + 1) \div 2]
        ELSE FScale(FAdd(v[n \div 2], v[(n \div 2) + 1]), 1, 2)

\* row_tol = max(8.0, med_h * 0.9)
RowTol(med_h) == FMax(F(8), FScale(med_h, 9, 10))

\* col_tol = max(12.0, med_h * 1.2)
ColTol(med_h) == FMax(F(12), FScale(med_h, 12, 10))

\* sorted(boxes, key=lambda b: (y_center, x_center))
SortBoxes(bs) ==
    SortedByKeys(bs, [i \in 1..Len(bs) |-> <<bs[i].bbox.y_center, bs[i].bbox.x_center>>])

\* sorted(current, key=lambda x: x_center)
SortRow(r) == SortedByKeys(r, [i \in 1..Len(r) |-> <<r[i].bbox.x_center, F(0)>>])

YCenters(r) == [i \in 1..Len(r) |-> r[i].bbox.y_center]

XCenters(r) == [i \in 1..Len(r) |-> r[i].bbox.x_center]

\* The loop "for b in boxes_sorted" and the flush of the last row.  current_y
\* is None exactly while current is empty, before the first item.
RECURSIVE RowScan(_, _, _, _, _)
RowScan(rows, current, current_y, rest, row_tol) ==
    IF rest = <<>>
    THEN (IF current # <<>> THEN Append(rows, SortRow(current)) ELSE rows)
    ELSE LET b == Head(rest)
             y == b.bbox.y_center
         IN  IF current = <<>>
             THEN RowScan(rows, <<b>>, y, Tail(rest), row_tol)
             ELSE IF FLe(FAbs(FSub(y, current_y)), row_tol)
                  THEN RowScan(rows, Append(current, b),
                               Mean(YCenters(Append(current, b))), Tail(rest), row_tol)
                  ELSE RowScan(Append(rows, SortRow(current)), <<b>>, y,
                               Tail(rest), row_tol)

\* rows = [r for r in rows if len(r) >= 2]
RECURSIVE DropShortRows(_)
DropShortRows(rows) ==
    IF rows = <<>> THEN <<>>
    ELSE (IF Len(Head(rows)) >= 2 THEN <<Head(rows)>> ELSE <<>>)
         \o DropShortRows(Tail(rows))

\* The rows of the table: grouping, per-row sort, short rows dropped.
GroupRows(bs, med_h) ==
    DropShortRows(RowScan(<<>>, <<>>, F(0), SortBoxes(bs), RowTol(med_h)))

RECURSIVE MaxLen(_)
MaxLen(rows) ==
    IF rows = <<>> THEN 0 ELSE Max(Len(Head(rows)), MaxLen(Tail(rows)))

\* max(2, int(0.6 * max_cols))
HeaderMinItems(max_cols) == Max(2, (6 * max_cols) \div 10)

\* Indices (into rows) of candidate_rows, in order.
CandidateRows(rows) ==
    LET c == {i \in 1..Len(rows) : Len(rows[i]) >= HeaderMinItems(MaxLen(rows))}
    IN  IF c = {} THEN 1..Len(rows) ELSE c

\* header_row = min(candidate_rows, key=median y_center): the first candidate
\* whose key no other candidate undercuts.
HeaderRow(rows) ==
    LET c == CandidateRows(rows)
        key(i) == Median(YCenters(rows[i]))
        best == {i \in c : \A j \in c : FLe(key(i), key(j))}
    IN  CHOOSE i \in best : \A j \in best : i <= j

RECURSIVE AllXCenters(_)
AllXCenters(rows) ==
    IF rows = <<>> THEN <<>>
    ELSE (IF Len(Head(rows)) < 2 THEN <<>> ELSE XCenters(Head(rows)))
         \o AllXCenters(Tail(rows))

\* One step of the header loop and of the body loop: text txt goes to slot,
\* whose content so far is old.
JoinCell(old, txt) == IF old # <<>> THEN Strip(old \o <<" ">> \o txt) ELSE txt

\* The loop "for b in header_row" over headers_by_col.
RECURSIVE HeaderScan(_, _, _)
HeaderScan(headers_by_col, items, col_centers) ==
    IF items = <<>> THEN headers_by_col
    ELSE LET b == Head(items)
             idx == AssignToNearest(b.bbox.x_center, col_centers)
             txt == Strip(b.text)
         IN  IF txt = <<>> THEN HeaderScan(headers_by_col, Tail(items), col_centers)
             ELSE HeaderScan([headers_by_col EXCEPT ![idx] = JoinCell(@, txt)],
                             Tail(items), col_centers)

\* headers = [h.strip() if h.strip() else f"col_{i+1}" ...]
Headers(header_row, col_centers) ==
    LET by_col == HeaderScan([i \in 1..Len(col_centers) |-> <<>>], header_row, col_centers)
    IN  [i \in 1..Len(col_centers) |->
            IF Strip(by_col[i]) # <<>> THEN Strip(by_col[i]) ELSE ColLabel(i)]

\* The loop "for b in r" over row_obj, a dict keyed by header text.
RECURSIVE BodyScan(_, _, _, _)
BodyScan(row_obj, items, headers, col_centers) ==
    IF items = <<>> THEN row_obj
    ELSE LET b == Head(items)
             idx == AssignToNearest(b.bbox.x_center, col_centers)
             key == headers[idx]
             txt == Strip(b.text)
         IN  IF txt = <<>> THEN BodyScan(row_obj, Tail(items), headers, col_centers)
             ELSE BodyScan([row_obj EXCEPT ![key] = JoinCell(@, txt)],
                           Tail(items), headers, col_centers)

\* row_obj = {h: "" for h in headers}: one key per distinct header text.
EmptyRow(headers) == [h \in {headers[i] : i \in 1..Len(headers)} |-> <<>>]

\* The loop "for r in rows" from row i on: the header row is skipped, a row
\* with no non-empty value is not emitted.
RECURSIVE BodyRows(_, _, _, _, _)
BodyRows(rows, i, header_idx, headers, col_centers) ==
    IF i > Len(rows) THEN <<>>
    ELSE LET row_obj == BodyScan(EmptyRow(headers), rows[i], headers, col_centers)
             keep == /\ i # header_idx
                     /\ \E h \in DOMAIN row_obj : Strip(row_obj[h]) # <<>>
         IN  (IF keep THEN <<row_obj>> ELSE <<>>)
             \o BodyRows(rows, i + 1, header_idx, headers, col_centers)

\* heights = [float(b["bbox"]["h"]) for b in boxes if b.get("bbox") is not None];
\* every item the callers build has a bbox.
Heights(bs) == [i \in 1..Len(bs) |-> bs[i].bbox.h]

\* rows after grouping and filtering, for a list of at least one box
RowsOf(bs) == GroupRows(bs, Median(Heights(bs)))

\* col_centers
ColCentersOf(bs) == Cluster1d(AllXCenters(RowsOf(bs)), ColTol(Median(Heights(bs))))

\* Mutant of EmitTable: the guard "if not kv_rows: return None" is missing.
EmitTableUnguarded(headers, kv_rows) ==
    Some([headers |-> headers,
          rows |-> kv_rows,
          row_count |-> Len(kv_rows),
          column_count |-> Len(headers)])

\* The end of the function: no body row, no table; else the result dict.
EmitTable(headers, kv_rows) ==
    IF kv_rows = <<>> THEN NoTable
    ELSE Some([headers |-> headers,
               rows |-> kv_rows,
               row_count |-> Len(kv_rows),
               column_count |-> Len(headers)])

ReconstructTableFromBoxes(bs) ==
    IF Len(bs) < MinBoxes THEN NoTable
    ELSE IF Heights(bs) = <<>> THEN NoTable
    ELSE LET rows == RowsOf(bs)
         IN  IF Len(rows) < 2 THEN NoTable
             ELSE LET header_idx == HeaderRow(rows)
                      col_centers == ColCentersOf(bs)
                  IN  IF AllXCenters(rows) = <<>> \/ Len(col_centers) < 2 THEN NoTable
                      ELSE LET headers == Headers(rows[header_idx], col_centers)
                           IN  EmitTable(headers,
                                         BodyRows(rows, 1, header_idx, headers,
                                                  col_centers))

(***************************************************************************)
(* _extract_tables_from_paddle_page.  The image is passed on to            *)
(* _detect_table_regions, so it is given as that function sees it: its     *)
(* size and the bounding rectangles of its contours.                       *)
(***************************************************************************)
\* The loop "for l in lines": a line without polygon is skipped.
RECURSIVE BoxesOfLines(_)
BoxesOfLines(ls) ==
    IF ls = <<>> THEN <<>>
    ELSE (IF Head(ls).polygon = <<>> THEN <<>>
          ELSE <<[text |-> Head(ls).text,
                  confidence |-> Head(ls).confidence,
                  bbox |-> PolygonToBbox(Head(ls).polygon)]>>)
         \o BoxesOfLines(Tail(ls))

\* rx0 <= x_center <= rx1 and ry0 <= y_center <= ry1
InRegion(b, r) ==
    /\ FLe(F(r.x), b.bbox.x_center) /\ FLe(b.bbox.x_center, F(r.x + r.w))
    /\ FLe(F(r.y), b.bbox.y_center) /\ FLe(b.bbox.y_center, F(r.y + r.h))

\* in_region = [b for b in boxes if ...]
RECURSIVE BoxesInRegion(_, _)
BoxesInRegion(bs, r) ==
    IF bs = <<>> THEN <<>>
    ELSE (IF InRegion(Head(bs), r) THEN <<Head(bs)>> ELSE <<>>)
         \o BoxesInRegion(Tail(bs), r)

\* reconstructed["table_index"] = i; reconstructed["bbox"] = bbox
\* (bbox: the empty list for None, a one-element list for a rectangle).
Tagged(t, i, bbox) ==
    [headers |-> t.headers, rows |-> t.rows, row_count |-> t.row_count,
     column_count |-> t.column_count, table_index |-> i, bbox |-> bbox]

\* The loop "for i, r in enumerate(regions, start=1)" from region i on.
RECURSIVE RegionTables(_, _, _)
RegionTables(bs, rs, i) ==
    IF i > Len(rs) THEN <<>>
    ELSE LET reconstructed == ReconstructTableFromBoxes(BoxesInRegion(bs, rs[i]))
         IN  (IF reconstructed = NoTable THEN <<>>
              ELSE <<Tagged(reconstructed[1], i, Some(rs[i]))>>)
             \o RegionTables(bs, rs, i + 1)

ExtractTablesFromPaddlePage(cs, im, ls) ==
    IF ls = <<>> THEN <<>>
    ELSE LET bs == BoxesOfLines(ls)
         IN  IF bs = <<>> THEN <<>>
             ELSE LET rs == DetectTableRegions(cs, im)
                      ts == RegionTables(bs, rs, 1)
                  IN  IF ts # <<>> THEN ts
                      ELSE LET reconstructed == ReconstructTableFromBoxes(bs)
                           IN  IF reconstructed = NoTable THEN <<>>
                               ELSE <<Tagged(reconstructed[1], 1, <<>>)>>

(***************************************************************************)
(* _text_quality_score and _merge_text                                     *)
(***************************************************************************)
IsAlpha(ch) == ch \in {"a", "b", "A", "B"}

IsDigit(ch) == ch \in {"0", "1", "2", "3", "4", "5", "6", "7", "8", "9"}

\* str.lower on one character
LowerChar(ch) == CASE ch = "A" -> "a" [] ch = "B" -> "b" [] OTHER -> ch

Lower(t) == [i \in 1..Len(t) |-> LowerChar(t[i])]

\* str.split("\n"): the pieces between the newlines, empty pieces included.
RECURSIVE SplitAt(_, _)
SplitAt(t, piece) ==
    IF t = <<>> THEN <<piece>>
    ELSE IF Head(t) = "\n" THEN <<piece>> \o SplitAt(Tail(t), <<>>)
         ELSE SplitAt(Tail(t), Append(piece, Head(t)))

SplitLines(t) == SplitAt(t, <<>>)

\* "\n".join(ls)
RECURSIVE JoinLines(_)
JoinLines(ls) ==
    IF ls = <<>> THEN <<>>
    ELSE IF Len(ls) = 1 THEN ls[1]
         ELSE ls[1] \o <<"\n">> \o JoinLines(Tail(ls))

\* [ln.strip() for ln in t.split("\n") if ln.strip()]
RECURSIVE StripNonEmpty(_)
StripNonEmpty(ls) ==
    IF ls = <<>> THEN <<>>
    ELSE (IF Strip(Head(ls)) # <<>> THEN <<Strip(Head(ls))>> ELSE <<>>)
         \o StripNonEmpty(Tail(ls))

NonEmptyLines(t) == StripNonEmpty(SplitLines(t))

\* _text_quality_score
TextQualityScore(text) ==
    LET s == Strip(text)
        n == Len(s)
        letters == Cardinality({i \in 1..Len(s) : IsAlpha(s[i])})
        digits == Cardinality({i \in 1..Len(s) : IsDigit(s[i])})
        spaces == Cardinality({i \in 1..Len(s) : IsSpace(s[i])})
        weird == n - (letters + digits + spaces)
        line_bonus == Min(30, Len(NonEmptyLines(s)))
        score == FAdd(FAdd(FAdd(F(letters), Frac(6 * digits, 10)),
                           FSub(Frac(spaces, 10), Frac(15 * weird, 10))),
                      F(line_bonus))
    IN  IF s = <<>> THEN F(0)
        ELSE FAdd(score, FMin(F(50), Frac(n, 50)))

\* re.sub(r"\s+", " ", ln): every run of whitespace becomes one space.
RECURSIVE CollapseSpaces(_)
CollapseSpaces(t) ==
    IF t = <<>> THEN <<>>
    ELSE IF IsSpace(Head(t))
         THEN <<" ">> \o CollapseSpaces(LStrip(t))
         ELSE <<Head(t)>> \o CollapseSpaces(Tail(t))

\* Mutant of LineKey: the key keeps the case.
LineKeyCaseSensitive(ln) == Strip(CollapseSpaces(ln))

\* key = re.sub(r"\s+", " ", ln).strip().lower()
LineKey(ln) == Lower(Strip(CollapseSpaces(ln)))

\* The loop "for ln in st_lines + pt_lines" over seen and merged.
RECURSIVE DedupScan(_, _, _)
DedupScan(ls, seen, merged) ==
    IF ls = <<>> THEN merged
    ELSE LET key == LineKey(Head(ls))
         IN  IF key = <<>> \/ key \in seen THEN DedupScan(Tail(ls), seen, merged)
             ELSE DedupScan(Tail(ls), seen \cup {key}, Append(merged, Head(ls)))

\* The merge branch of _merge_text on the stripped candidates.
MergeUniqueLines(st, pt) ==
    Strip(JoinLines(DedupScan(NonEmptyLines(st) \o NonEmptyLines(pt), {}, <<>>)))

\* p_score: the confidence (an empty list for None) adds a tenth of itself.
PaddleScore(pt, conf) ==
    IF conf = <<>> THEN TextQualityScore(pt)
    ELSE FAdd(TextQualityScore(pt), FScale(conf[1], 1, 10))

\* a > b * 1.05
Beats(a, b) == FLt(FScale(b, 105, 100), a)

MergeText(text_s, text_p, conf) ==
    LET st == Strip(text_s)
        pt == Strip(text_p)
        s_score == TextQualityScore(st)
        p_score == PaddleScore(pt, conf)
    IN  IF Beats(p_score, s_score) THEN pt
        ELSE IF Beats(s_score, p_score) THEN st
        ELSE MergeUniqueLines(st, pt)

(***************************************************************************)
(* _order_points: the corners of a quadrilateral by coordinate sums and    *)
(* differences.  pts.sum(axis=1) is x + y and np.diff(pts, axis=1) is      *)
(* y - x; argmin and argmax return the first index of the extreme value.   *)
(***************************************************************************)
PointSum(p) == p.x + p.y

PointDiffReversed(p) == p.x - p.y

PointDiff(p) == p.y - p.x

\* np.argmin over a list of integers: the first index holding the minimum
ArgMin(v) ==
    CHOOSE i \in 1..Len(v) :
        /\ \A j \in 1..Len(v) : v[i] <= v[j]
        /\ \A j \in 1..(i - 1) : v[j] > v[i]

\* np.argmax: the first index holding the maximum
ArgMax(v) ==
    CHOOSE i \in 1..Len(v) :
        /\ \A j \in 1..Len(v) : v[i] >= v[j]
        /\ \A j \in 1..(i - 1) : v[j] < v[i]

\* rect[0], rect[1], rect[2], rect[3] as the sequence <<tl, tr, br, bl>>
OrderPoints(p) ==
    LET s == [i \in 1..Len(p) |-> PointSum(p[i])]
        diff == [i \in 1..Len(p) |-> PointDiff(p[i])]
    IN  <<p[ArgMin(s)], p[ArgMin(diff)], p[ArgMax(s)], p[ArgMax(diff)]>>

(***************************************************************************)
(* Specification SpecRegions: one call of _detect_table_regions.           *)
(* The image is ImgW x ImgH; the contours are up to MaxContours rectangles *)
(* of a coarse grid, the two rectangles of the documented merge example,   *)
(* and one rectangle too small to pass the filter.                         *)
(***************************************************************************)
ImgW == 500

ImgH == 400

MaxContours == 3

Rect(x, y, w, h) == [x |-> x, y |-> y, w |-> w, h |-> h]

GridRects ==
    {Rect(x, y, w, h) : x \in {0, 100, 200}, y \in {0, 100},
                        w \in {100, 300}, h \in {100, 200}}

ExampleA == Rect(0, 0, 100, 50)

ExampleB == Rect(90, 10, 100, 50)

SmallRect == Rect(0, 0, 50, 50)

ContourRects == GridRects \cup {ExampleA, ExampleB, SmallRect}

IdleRegions ==
    /\ img = None /\ contours = None /\ regions = None

IdleTable ==
    /\ boxes = None /\ table = None

IdlePage ==
    /\ lines = None /\ tables = None

IdleCluster ==
    /\ values = None /\ tol = None /\ centers = None

IdleMerge ==
    /\ struct_text = None /\ paddle_text = None /\ paddle_avg_conf = None
    /\ merged_text = None

IdleOrder ==
    /\ pts = None /\ rect = None

IdleHandler ==
    /\ running = None /\ req = None /\ handle = None /\ built = None

IdleFns ==
    IdleRegions /\ IdleTable /\ IdlePage /\ IdleCluster /\ IdleMerge

IdleRest == IdleOrder /\ IdleHandler

InitRegions ==
    /\ pc = "call"
    /\ img = [w |-> ImgW, h |-> ImgH]
    /\ contours \in SeqsUpTo(ContourRects, MaxContours)
    /\ regions = None
    /\ IdleTable /\ IdlePage /\ IdleCluster /\ IdleMerge /\ IdleRest

CallDetectTableRegions ==
    /\ pc = "call"
    /\ regions' = DetectTableRegions(contours, img)
    /\ pc' = "done"
    /\ UNCHANGED <<img, contours, boxes, table, lines, tables, values, tol,
                   centers, struct_text, paddle_text, paddle_avg_conf,
                   merged_text>>
    /\ UNCHANGED restVars

NextRegions == CallDetectTableRegions

SpecRegions == InitRegions /\ [][NextRegions]_vars

\* C3: the regions returned by _detect_table_regions are pairwise
\* non-overlapping: no two of them intersect in positive area.
C3_RegionsPairwiseDisjoint ==
    pc = "done" =>
        \A i, j \in 1..Len(regions) : i < j => ~Intersects(regions[i], regions[j])

\* C4: the regions returned by _detect_table_regions are sorted ascending by
\* (y, x), top to bottom and then left to right.
C4_RegionsSortedByYX ==
    pc = "done" =>
        \A i \in 1..(Len(regions) - 1) :
            \/ regions[i].y < regions[i + 1].y
            \/ regions[i].y = regions[i + 1].y /\ regions[i].x <= regions[i + 1].x

IsExamplePair == contours \in {<<ExampleA, ExampleB>>, <<ExampleB, ExampleA>>}

IsDisjointPair ==
    /\ Len(contours) = 2
    /\ KeepContour(contours[1], img) /\ KeepContour(contours[2], img)
    /\ ~Intersects(contours[1], contours[2])

\* C5 as stated: the two overlapping example rectangles merge into
\* {x:0, y:0, w:190, h:50}.
C5_ExampleMergesToHeight50 ==
    (pc = "done" /\ IsExamplePair) => regions = <<Rect(0, 0, 190, 50)>>

\* C5 as amended: the two overlapping example rectangles {0,0,100,50} and
\* {90,10,100,50} merge into the single region {x:0, y:0, w:190, h:60}, the
\* bounding rectangle of their union; two disjoint rectangles are returned as
\* two regions, each unchanged, in (y, x) order.
C5_ExampleMergesToUnion ==
    pc = "done" =>
        /\ IsExamplePair => regions = <<Rect(0, 0, 190, 60)>>
        /\ IsDisjointPair =>
               /\ Len(regions) = 2
               /\ {regions[1], regions[2]} = {contours[1], contours[2]}
               /\ regions = SortRegions(contours)

C5_Witness ==
    /\ pc = "done"
    /\ contours = <<ExampleB, ExampleA>>
    /\ regions = <<Rect(0, 0, 190, 60)>>

(***************************************************************************)
(* Specification SpecCluster: one call of _cluster_1d on up to MaxValues   *)
(* values, in any order, with a tolerance.                                 *)
(***************************************************************************)
MaxValues == 4

ClusterValues == {F(0), F(10), F(20), F(100)}

ClusterTols == {F(-1), F(0), F(10), F(12)}

InitCluster ==
    /\ pc = "call"
    /\ values \in SeqsUpTo(ClusterValues, MaxValues)
    /\ tol \in ClusterTols
    /\ centers = None
    /\ IdleRegions /\ IdleTable /\ IdlePage /\ IdleMerge /\ IdleRest

CallCluster1d ==
    /\ pc = "call"
    /\ centers' = Cluster1d(values, tol)
    /\ pc' = "done"
    /\ UNCHANGED <<img, contours, regions, boxes, table, lines, tables,
                   values, tol, struct_text, paddle_text, paddle_avg_conf,
                   merged_text>>
    /\ UNCHANGED restVars

NextCluster == CallCluster1d

SpecCluster == InitCluster /\ [][NextCluster]_vars

\* The permutations of 1..n, as sequences: n inserted at every place of every
\* permutation of 1..(n - 1).
RECURSIVE Perms(_)
Perms(n) ==
    IF n = 0 THEN {<<>>}
    ELSE {SubSeq(p, 1, k) \o <<n>> \o SubSeq(p, k + 1, n - 1) :
              p \in Perms(n - 1), k \in 0..(n - 1)}

\* C8: _cluster_1d returns the same list of centers, in ascending order, for
\* every permutation of the input list.
C8_ClusterPermutationInvariant ==
    pc = "done" =>
        /\ \A p \in Perms(Len(values)) :
               Cluster1d([i \in 1..Len(values) |-> values[p[i]]], tol) = centers
        /\ \A i \in 1..(Len(centers) - 1) : FLe(centers[i], centers[i + 1])

C8_Witness ==
    /\ pc = "done"
    /\ Len(values) = 4
    /\ FLt(values[2], values[1]) /\ FLt(values[4], values[2])
    /\ Len(centers) = 2
    /\ centers[1] = Frac(10, 3)

(***************************************************************************)
(* Specification SpecTable: a caller builds the list boxes, one item per   *)
(* recognised line, and calls _reconstruct_table_from_boxes on it.  An     *)
(* item is built as the callers build it: a rectangle polygon passed       *)
(* through _polygon_to_bbox.  All items of one list have the same glyph    *)
(* height.  sorted() at the head of the function is stable, so its result  *)
(* for a list equals its result for that list in (y_center, x_center)      *)
(* order with items of equal position in their original order; the lists   *)
(* are built in that order, items of equal position in every order.        *)
(***************************************************************************)
MaxBoxes == 6

ItemHalfWidth == 4

\* Centers <<x, y>> of the items, in (y, x) order: two lines of text, two
\* columns closer than any column tolerance and one far column.
TablePositions ==
    <<<<10, 10>>, <<20, 10>>, <<110, 10>>, <<10, 50>>, <<110, 50>>>>

TableTexts == {<<" ">>, <<"A">>}

\* Glyph heights (even): 10 keeps the two lines apart, 50 joins them.
TableHeights == {10, 50}

Point(x, y) == [x |-> F(x), y |-> F(y)]

\* A recognised line as _run_paddle returns it, around center (cx, cy).
Line(text, cx, cy, h) ==
    [text |-> text,
     confidence |-> None,
     polygon |-> <<Point(cx - ItemHalfWidth, cy - (h \div 2)),
                   Point(cx + ItemHalfWidth, cy - (h \div 2)),
                   Point(cx + ItemHalfWidth, cy + (h \div 2)),
                   Point(cx - ItemHalfWidth, cy + (h \div 2))>>]

\* The box dict built from a line.
BoxOfLine(l) == BoxesOfLines(<<l>>)[1]

\* Every item a list may hold.
TableItems ==
    {BoxOfLine(Line(t, TablePositions[k][1], TablePositions[k][2], h)) :
         k \in 1..Len(TablePositions), t \in TableTexts, h \in TableHeights}

\* b may follow the list bs built so far: same glyph height, position not
\* before the last item's.
MayFollow(bs, b) ==
    bs # <<>> =>
        /\ b.bbox.h = bs[1].bbox.h
        /\ KeyLe(<<bs[Len(bs)].bbox.y_center, bs[Len(bs)].bbox.x_center>>,
                 <<b.bbox.y_center, b.bbox.x_center>>)

InitTable ==
    /\ pc = "call"
    /\ boxes = <<>>
    /\ table = NoTable
    /\ IdleRegions /\ IdlePage /\ IdleCluster /\ IdleMerge /\ IdleRest

AppendBox ==
    /\ pc = "call"
    /\ Len(boxes) < MaxBoxes
    /\ \E b \in TableItems :
           /\ MayFollow(boxes, b)
           /\ boxes' = Append(boxes, b)
    /\ UNCHANGED <<pc, img, contours, regions, table, lines, tables, values,
                   tol, centers, struct_text, paddle_text, paddle_avg_conf,
                   merged_text>>
    /\ UNCHANGED restVars

CallReconstructTable ==
    /\ pc = "call"
    /\ table' = ReconstructTableFromBoxes(boxes)
    /\ pc' = "done"
    /\ UNCHANGED <<img, contours, regions, boxes, lines, tables, values, tol,
                   centers, struct_text, paddle_text, paddle_avg_conf,
                   merged_text>>
    /\ UNCHANGED restVars

NextTable == AppendBox \/ CallReconstructTable

SpecTable == InitTable /\ [][NextTable]_vars

\* The dict returned, when one is returned.
T == table[1]

Emitted == pc = "done" /\ table # NoTable

\* C1: every row mapping of an emitted table has exactly column_count keys,
\* and its keys are exactly the entries of headers.
C1_RowsHaveOneEntryPerHeader ==
    Emitted =>
        \A i \in 1..Len(T.rows) :
            /\ Cardinality(DOMAIN T.rows[i]) = T.column_count
            /\ DOMAIN T.rows[i] = {T.headers[k] : k \in 1..Len(T.headers)}

\* C2: an emitted table has row_count >= 1 and column_count >= 2, row_count
\* is the length of rows and column_count the length of headers.
C2_EmittedTableCounts ==
    Emitted =>
        /\ T.row_count >= 1
        /\ T.column_count >= 2
        /\ T.row_count = Len(T.rows)
        /\ T.column_count = Len(T.headers)

C2_Witness ==
    /\ Emitted
    /\ T.row_count = 1
    /\ T.column_count = 2
    /\ Len(boxes) = MinBoxes

C1_Witness ==
    /\ Emitted
    /\ T.headers = <<<<"A">>, ColLabel(2)>>
    /\ DOMAIN T.rows[1] = {<<"A">>, ColLabel(2)}

\* C9: _reconstruct_table_from_boxes returns None whenever the input has
\* fewer than 6 items, or row grouping leaves fewer than 2 rows of at least 2
\* items, or column clustering yields fewer than 2 centers.
C9_DegenerateInputsGiveNoTable ==
    pc = "done" =>
        ((\/ Len(boxes) < 6
          \/ Len(RowsOf(boxes)) < 2
          \/ Len(ColCentersOf(boxes)) < 2) => table = NoTable)

\* Six items or more in two rows, all in one column cluster.
C9_Witness ==
    /\ pc = "done"
    /\ Len(boxes) >= 6
    /\ Len(RowsOf(boxes)) >= 2
    /\ Len(ColCentersOf(boxes)) < 2
    /\ table = NoTable

\* Six items or more that group into fewer than two rows of two items.
C9_WitnessFewRows ==
    /\ pc = "done"
    /\ Len(boxes) >= 6
    /\ Len(RowsOf(boxes)) = 1
    /\ boxes[1].bbox.h = F(10)
    /\ table = NoTable

\* Five items that would make a table.
C9_WitnessFewItems ==
    /\ pc = "done"
    /\ Len(boxes) = 5
    /\ Len(RowsOf(boxes)) = 2
    /\ Len(ColCentersOf(boxes)) = 2
    /\ table = NoTable

\* the row count is at least max(2, 60% of the widest row's count)
QualifiesAsHeader(rows, i) ==
    /\ Len(rows[i]) >= 2
    /\ 10 * Len(rows[i]) >= 6 * MaxLen(rows)

\* C16: the header row is, among the surviving rows with at least
\* max(2, 60% of the widest row's item count) items, the one with the
\* smallest median vertical center; a row with fewer items is never the
\* header while a qualifying row exists.
C16_HeaderIsTopmostQualifyingRow ==
    (pc = "done" /\ Len(boxes) >= 6 /\ Len(RowsOf(boxes)) >= 2) =>
        LET rows == RowsOf(boxes)
            q == {i \in 1..Len(rows) : QualifiesAsHeader(rows, i)}
            h == HeaderRow(rows)
        IN  q # {} =>
                /\ h \in q
                /\ \A j \in q : FLe(Median(YCenters(rows[h])),
                                    Median(YCenters(rows[j])))

(***************************************************************************)
(* Specification SpecTies: one call of _reconstruct_table_from_boxes on a  *)
(* list in which several items may share one position and differ in their  *)
(* text.  The positions are the corners of a 2 x 2 grid, the glyph height   *)
(* is 10, the list is built in (y_center, x_center) order.                  *)
(***************************************************************************)
TiePositions == <<<<10, 10>>, <<110, 10>>, <<10, 50>>, <<110, 50>>>>

TieTexts == {<<"A">>, <<"B">>}

TieItems ==
    {BoxOfLine(Line(t, TiePositions[k][1], TiePositions[k][2], 10)) :
         k \in 1..Len(TiePositions), t \in TieTexts}

AppendTiedBox ==
    /\ pc = "call"
    /\ Len(boxes) < MaxBoxes
    /\ \E b \in TieItems :
           /\ MayFollow(boxes, b)
           /\ boxes' = Append(boxes, b)
    /\ UNCHANGED <<pc, img, contours, regions, table, lines, tables, values,
                   tol, centers, struct_text, paddle_text, paddle_avg_conf,
                   merged_text>>
    /\ UNCHANGED restVars

NextTies == AppendTiedBox \/ CallReconstructTable

SpecTies == InitTable /\ [][NextTies]_vars

SamePosition(a, b) ==
    /\ a.bbox.y_center = b.bbox.y_center
    /\ a.bbox.x_center = b.bbox.x_center

Swapped(bs, i, j) ==
    [k \in 1..Len(bs) |-> IF k = i THEN bs[j] ELSE IF k = j THEN bs[i] ELSE bs[k]]

\* the index returned for value is the lowest one among the nearest centers
LowestNearest(value, cs) ==
    LET idx == AssignToNearest(value, cs)
        dist(i) == FAbs(FSub(value, cs[i]))
    IN  /\ \A i \in 1..Len(cs) : FLe(dist(idx), dist(i))
        /\ \A i \in 1..(idx - 1) : FLt(dist(idx), dist(i))

\* C15: exchanging two items of equal (y_center, x_center) in the input
\* list leaves the result of _reconstruct_table_from_boxes unchanged, and
\* every item is assigned to the lowest-indexed of its nearest columns.
C15_EqualPositionOrderIrrelevant ==
    pc = "done" =>
        /\ \A i, j \in 1..Len(boxes) :
               (i < j /\ SamePosition(boxes[i], boxes[j])) =>
                   ReconstructTableFromBoxes(Swapped(boxes, i, j)) = table
        /\ (Len(boxes) >= 6 /\ Len(ColCentersOf(boxes)) >= 1) =>
               \A i \in 1..Len(boxes) :
                   LowestNearest(boxes[i].bbox.x_center, ColCentersOf(boxes))

(***************************************************************************)
(* Specification SpecPage: the recogniser's lines arrive one by one, then  *)
(* _extract_tables_from_paddle_page runs on them and on an image with up   *)
(* to MaxPageContours table-like contours.  The contours are the two       *)
(* overlapping boxes of the documented merge example and a column box to   *)
(* the right of the first; the text sits in one position left of the       *)
(* column and in a 2 x 2 grid inside it.  Lines are listed in              *)
(* (y_center, x_center) order, as for SpecTable.                           *)
(***************************************************************************)
MaxLines == 6

MaxPageContours == 3

PageColumn == Rect(100, 0, 100, 100)

PageRects == {ExampleA, ExampleB, PageColumn}

PagePositions ==
    <<<<10, 10>>, <<110, 10>>, <<180, 10>>, <<110, 50>>, <<180, 50>>>>

PageLines == {Line(<<"A">>, PagePositions[k][1], PagePositions[k][2], 10) :
                  k \in 1..Len(PagePositions)}

LinePosition(l) == <<PolygonToBbox(l.polygon).y_center, PolygonToBbox(l.polygon).x_center>>

InitPage ==
    /\ pc = "call"
    /\ img = [w |-> ImgW, h |-> ImgH]
    /\ contours \in SeqsUpTo(PageRects, MaxPageContours)
    /\ lines = <<>>
    /\ tables = <<>>
    /\ regions = None
    /\ IdleTable /\ IdleCluster /\ IdleMerge /\ IdleRest

AppendLine ==
    /\ pc = "call"
    /\ Len(lines) < MaxLines
    /\ \E l \in PageLines :
           /\ lines # <<>> => KeyLe(LinePosition(lines[Len(lines)]), LinePosition(l))
           /\ lines' = Append(lines, l)
    /\ UNCHANGED <<pc, img, contours, regions, boxes, table, tables, values,
                   tol, centers, struct_text, paddle_text, paddle_avg_conf,
                   merged_text>>
    /\ UNCHANGED restVars

CallExtractTables ==
    /\ pc = "call"
    /\ tables' = ExtractTablesFromPaddlePage(contours, img, lines)
    /\ regions' = DetectTableRegions(contours, img)
    /\ pc' = "done"
    /\ UNCHANGED <<img, contours, boxes, table, lines, values, tol, centers,
                   struct_text, paddle_text, paddle_avg_conf, merged_text>>
    /\ UNCHANGED restVars

NextPage == AppendLine \/ CallExtractTables

SpecPage == InitPage /\ [][NextPage]_vars

\* The tables came from regions (the fallback table carries no bounding box).
RegionScoped == pc = "done" /\ tables # <<>> /\ tables[1].bbox # <<>>

\* C10: in region-scoped reconstruction the k returned tables carry the
\* table_index values 1, 2, ..., k in list order, and each carries the
\* bounding box of a detected region.
C10_TablesNumberedFromOne ==
    RegionScoped =>
        \A k \in 1..Len(tables) :
            /\ tables[k].table_index = k
            /\ \E i \in 1..Len(regions) : tables[k].bbox = Some(regions[i])

\* C17: no recognised item lies in the regions of two returned tables, so
\* no item's text is in the tables of two different regions.
C17_ItemsInOneRegionTable ==
    RegionScoped =>
        \A k1, k2 \in 1..Len(tables) :
            k1 # k2 =>
                \A i \in 1..Len(lines) :
                    ~ (/\ InRegion(BoxOfLine(lines[i]), tables[k1].bbox[1])
                       /\ InRegion(BoxOfLine(lines[i]), tables[k2].bbox[1]))

(***************************************************************************)
(* Specification SpecMerge: one call of _merge_text.  A candidate text is  *)
(* up to MaxTextLines lines joined by newlines; a line is a word, two     *)
(* words, the same two words in another case and with other whitespace, a  *)
(* blank line, a digit or a character that is neither letter, digit nor    *)
(* space.  The confidence is None or a value of the recogniser's range.    *)
(***************************************************************************)
MaxTextLines == 2

LineTexts ==
    {<<"a">>, <<"A", " ", "a">>, <<"a", "\t", "a", " ">>, <<"!">>, <<"1">>, <<>>}

MergeTexts == {JoinLines(ls) : ls \in SeqsUpTo(LineTexts, MaxTextLines)}

Confidences == {<<>>, <<Frac(9, 10)>>}

InitMerge ==
    /\ pc = "call"
    /\ struct_text \in MergeTexts
    /\ paddle_text \in MergeTexts
    /\ paddle_avg_conf \in Confidences
    /\ merged_text = <<>>
    /\ IdleRegions /\ IdleTable /\ IdlePage /\ IdleCluster /\ IdleRest

CallMergeText ==
    /\ pc = "call"
    /\ merged_text' = MergeText(struct_text, paddle_text, paddle_avg_conf)
    /\ pc' = "done"
    /\ UNCHANGED <<img, contours, regions, boxes, table, lines, tables, values,
                   tol, centers, struct_text, paddle_text, paddle_avg_conf>>
    /\ UNCHANGED restVars

NextMerge == CallMergeText

SpecMerge == InitMerge /\ [][NextMerge]_vars

SScore == TextQualityScore(Strip(struct_text))

PScore == PaddleScore(Strip(paddle_text), paddle_avg_conf)

\* a exceeds b by more than 5% of b's magnitude: a - b > 0.05 * |b|
ExceedsByFivePercent(a, b) == FLt(FScale(FAbs(b), 5, 100), FSub(a, b))

\* C6: _merge_text returns the higher-scoring candidate verbatim when its
\* score exceeds the other's by more than 5% relative, and the line-
\* deduplicated merge when neither score exceeds the other by more than 5%,
\* for all scores, zero and negative ones included.
C6_MergeRuleByRelativeScore ==
    pc = "done" =>
        /\ ExceedsByFivePercent(PScore, SScore) => merged_text = Strip(paddle_text)
        /\ ExceedsByFivePercent(SScore, PScore) => merged_text = Strip(struct_text)
        /\ (~ExceedsByFivePercent(PScore, SScore) /\ ~ExceedsByFivePercent(SScore, PScore))
               => merged_text = MergeUniqueLines(Strip(struct_text), Strip(paddle_text))

\* The merge branch was taken.
MergeBranch ==
    /\ pc = "done"
    /\ ~Beats(PScore, SScore)
    /\ ~Beats(SScore, PScore)

\* The words of a line, lower-cased: the line cut at its whitespace.
RECURSIVE WordsOf(_, _)
WordsOf(t, word) ==
    IF t = <<>> THEN (IF word = <<>> THEN <<>> ELSE <<word>>)
    ELSE IF Head(t) \in {" ", "\t", "\n", "\r"}
         THEN (IF word = <<>> THEN <<>> ELSE <<word>>) \o WordsOf(Tail(t), <<>>)
         ELSE WordsOf(Tail(t), Append(word, LowerChar(Head(t))))

\* Two lines have the same whitespace-normalized, case-insensitive key.
SameKey(a, b) == WordsOf(a, <<>>) = WordsOf(b, <<>>)

\* The non-empty lines of both candidates, the first candidate's first.
InputLines == NonEmptyLines(Strip(struct_text)) \o NonEmptyLines(Strip(paddle_text))

OutputLines == IF merged_text = <<>> THEN <<>> ELSE SplitLines(merged_text)

\* The places of InputLines whose key occurs at no earlier place.
FirstOccurrences ==
    {i \in 1..Len(InputLines) : \A j \in 1..(i - 1) : ~SameKey(InputLines[j], InputLines[i])}

\* The elements of s at the places in keep, in order.
RECURSIVE Pick(_, _, _)
Pick(s, keep, i) ==
    IF i > Len(s) THEN <<>>
    ELSE (IF i \in keep THEN <<s[i]>> ELSE <<>>) \o Pick(s, keep, i + 1)

\* C7: in the merge branch the output is the non-empty lines of the first
\* candidate followed by those of the second, in original order, without
\* every line whose key occurred earlier; no two output lines share a key
\* and every key of an input line occurs exactly once in the output.
C7_MergeKeepsFirstOccurrences ==
    MergeBranch =>
        /\ OutputLines = Pick(InputLines, FirstOccurrences, 1)
        /\ \A i, j \in 1..Len(OutputLines) :
               i # j => ~SameKey(OutputLines[i], OutputLines[j])
        /\ \A i \in 1..Len(InputLines) :
               Cardinality({k \in 1..Len(OutputLines) :
                                SameKey(OutputLines[k], InputLines[i])}) = 1

\* The candidates hold the same two words in two cases and two spacings; one
\* line survives per key.
C7_Witness ==
    /\ MergeBranch
    /\ struct_text = <<"a", "\n", "A", " ", "a">>
    /\ paddle_text = <<"a", "\t", "a", " ", "\n", "a">>
    /\ merged_text = <<"a", "\n", "A", " ", "a">>

(***************************************************************************)
(* Specification SpecOrder: one call of _order_points.  The argument is    *)
(* the 4 vertices of a strictly convex quadrilateral with integer          *)
(* coordinates in 0..MaxCoord, in contour order (either orientation, any   *)
(* starting vertex), as cv2.approxPolyDP delivers them.                    *)
(***************************************************************************)
MaxCoord == 3

Pt(x, y) == [x |-> x, y |-> y]

GridPoints == {Pt(x, y) : x \in 0..MaxCoord, y \in 0..MaxCoord}

\* z component of (b - a) x (c - b): the turn taken at b
Turn(a, b, c) == (b.x - a.x) * (c.y - b.y) - (b.y - a.y) * (c.x - b.x)

Turns(q) == {Turn(q[i], q[(i % 4) + 1], q[((i + 1) % 4) + 1]) : i \in 1..4}

\* all four turns go the same way and none is straight
ConvexQuad(q) == (\A t \in Turns(q) : t > 0) \/ (\A t \in Turns(q) : t < 0)

ConvexQuads == {q \in [1..4 -> GridPoints] : ConvexQuad(q)}

InitOrder ==
    /\ pc = "call"
    /\ pts \in ConvexQuads
    /\ rect = <<>>
    /\ IdleFns /\ IdleHandler

CallOrderPoints ==
    /\ pc = "call"
    /\ rect' = OrderPoints(pts)
    /\ pc' = "done"
    /\ UNCHANGED <<fnVars, handlerVars, pts>>

NextOrder == CallOrderPoints

SpecOrder == InitOrder /\ [][NextOrder]_vars

PtsSet == {pts[i] : i \in 1..4}

MinimisesXMinusY(p) == \A q \in PtsSet : p.x - p.y <= q.x - q.y

MaximisesXMinusY(p) == \A q \in PtsSet : p.x - p.y >= q.x - q.y

SumCorners ==
    /\ rect[1] \in PtsSet /\ \A q \in PtsSet : rect[1].x + rect[1].y <= q.x + q.y
    /\ rect[3] \in PtsSet /\ \A q \in PtsSet : rect[3].x + rect[3].y >= q.x + q.y

\* C11: after _order_points, topLeft has the minimum x+y, bottomRight the
\* maximum x+y, topRight the minimum x-y and bottomLeft the maximum x-y.
C11_CornersAsStated ==
    pc = "done" =>
        /\ SumCorners
        /\ rect[2] \in PtsSet /\ MinimisesXMinusY(rect[2])
        /\ rect[4] \in PtsSet /\ MaximisesXMinusY(rect[4])

\* C11 (amended): after _order_points, topLeft has the minimum x+y,
\* bottomRight the maximum x+y, topRight the maximum x-y (the minimum of
\* y-x) and bottomLeft the minimum x-y (the maximum of y-x).
C11_CornersByExtremes ==
    pc = "done" =>
        /\ SumCorners
        /\ rect[2] \in PtsSet /\ MaximisesXMinusY(rect[2])
        /\ rect[4] \in PtsSet /\ MinimisesXMinusY(rect[4])

\* a slanted quadrilateral whose four sums and four differences all differ
C11_Witness ==
    /\ pc = "done"
    /\ pts = <<Pt(3, 1), Pt(2, 3), Pt(0, 2), Pt(1, 0)>>
    /\ rect = <<Pt(1, 0), Pt(3, 1), Pt(2, 3), Pt(0, 2)>>

\* C18: the 4 corners returned by _order_points are the 4 input points,
\* each exactly once.
C18_CornersArePermutation ==
    pc = "done" =>
        /\ {rect[i] : i \in 1..4} = PtsSet
        /\ \A i, j \in 1..4 : i # j => rect[i] # rect[j]

(***************************************************************************)
(* The two preprocessing pipelines.  An image is modelled by the list of  *)
(* operations applied to it; meta is the dictionary the pipeline returns:  *)
(* its "mode" entry and, in order, the names of its step_ entries.  small  *)
(* is the outcome of the size test, dark of the mean-intensity test.       *)
(***************************************************************************)
Processed(mode, steps) ==
    [image |-> [applied |-> steps], meta |-> [mode |-> mode, steps |-> steps]]

\* returns Optional[(thr, meta)]: the function falls off its end, and so
\* returns None, for every mode other than "basic"
PreprocessOpencvMode(mode, small, dark) ==
    IF mode = "basic"
    THEN Some(Processed(mode,
                  (IF small THEN <<"upscale">> ELSE <<>>)
                  \o <<"gray", "denoise", "threshold">>
                  \o (IF dark THEN <<"invert">> ELSE <<>>)))
    ELSE <<>>

PreprocessPaddleMode(mode, small) ==
    Some(Processed(mode,
             (IF small THEN <<"upscale">> ELSE <<>>)
             \o (IF mode = "photo" THEN <<"perspective">> ELSE <<>>)
             \o <<"contrast", "denoise", "sharpen">>))

PaddleEngines == {"paddle", "paddle_structure", "paddle_ensemble"}

\* the pipeline ocr_extract calls when preprocess is true
SelectedPipeline(engine, mode, small, dark) ==
    IF engine \in PaddleEngines
    THEN PreprocessPaddleMode(mode, small)
    ELSE PreprocessOpencvMode(mode, small, dark)

PrepTarget(engine) == IF engine \in PaddleEngines THEN "paddle" ELSE "tesseract"

\* prep_meta: {"enabled": preprocess} updated with the target and the meta
PrepMeta(enabled, target, meta) ==
    [enabled |-> enabled, target |-> target, mode |-> meta.mode,
     steps |-> meta.steps]

PrepMetaDisabled ==
    PrepMeta(FALSE, "", [mode |-> "", steps |-> <<>>])

\* the recognition backends one page calls, in call order
Backends(engine) ==
    CASE engine = "tesseract" -> <<"tesseract">>
      [] engine = "paddle_structure" -> <<"ppstructure">>
      [] engine = "paddle_ensemble" -> <<"ppstructure", "paddle_ocr">>
      [] OTHER -> <<"paddle_ocr">>

\* enumerate(images_bgr, start=1): the page number of loop index i = 0, 1, ...
PageIdxZeroBased(i) == i

PageIdx(i) == i + 1

\* JSON responses: status, the page named in the detail (0: none), pages
Response(status, page, pages) ==
    [status |-> status, page |-> page, pages |-> pages]

(***************************************************************************)
(* Specification SpecHandler: NumRequests requests to POST /ocr/extract in *)
(* one process.  ocr_extract is a coroutine on the server's event loop: it *)
(* suspends at "await file.read()" / "await request.body()" and nowhere    *)
(* else, so from the resumption to the response no other request runs.     *)
(* A request is at "idle" (not yet received), "await" (suspended on the    *)
(* body), "loop" (head of the page loop), "ocr" (about to call backend k   *)
(* of the page), "new" (inside the engine constructor of a getter), "use"  *)
(* (inside the backend call), "done" or "failed" (response sent).          *)
(***************************************************************************)
NumRequests == 2

MaxPages == 2

Requests == 1..NumRequests

Engines == {"tesseract", "paddle", "paddle_structure", "paddle_ensemble"}

PreprocessModes == {"basic", "photo"}

Handles == {"paddle_ocr", "ppstructure"}

NewRequest ==
    [engine |-> "", preprocess |-> FALSE, preprocess_mode |-> "", n |-> 0,
     i |-> 0, at |-> "idle", k |-> 0, prep_result |-> <<>>,
     prep_meta |-> PrepMetaDisabled, all_pages |-> <<>>, raised |-> 0,
     response |-> <<>>]

\* Mutant of Scheduled: every request runs in a thread of its own.
ScheduledPreemptively(r) == TRUE

\* the event loop runs a coroutine from one suspension to the next
Scheduled(r) ==
    IF req[r].at \in {"idle", "await"} THEN running = 0 ELSE running = r

Backend(r) == Backends(req[r].engine)[req[r].k]

InitHandler ==
    /\ pc = "call"
    /\ running = 0
    /\ req = [r \in Requests |-> NewRequest]
    /\ handle = [h \in Handles |-> None]
    /\ built = [h \in Handles |-> 0]
    /\ IdleFns /\ IdleOrder

\* the request arrives and the coroutine runs up to its await
Receive(r) ==
    /\ req[r].at = "idle" /\ Scheduled(r)
    /\ req' = [req EXCEPT ![r] = [@ EXCEPT !.at = "await"]]
    /\ UNCHANGED <<running, handle, built, pc, fnVars, orderVars>>

\* the body is empty or cannot be loaded: HTTP 400
Reject(r) ==
    /\ req[r].at = "await" /\ Scheduled(r)
    /\ req' = [req EXCEPT ![r] =
                  [@ EXCEPT !.at = "failed",
                            !.response = <<Response(400, 0, <<>>)>>]]
    /\ running' = r
    /\ UNCHANGED <<handle, built, pc, fnVars, orderVars>>

\* the body is read and loaded into n page images; the query parameters
\* engine, preprocess and preprocess_mode are drawn here, where the
\* coroutine first reads them
Resume(r) ==
    /\ req[r].at = "await" /\ Scheduled(r)
    /\ \E engine \in Engines, preprocess \in BOOLEAN,
          preprocess_mode \in PreprocessModes, n \in 0..MaxPages :
           req' = [req EXCEPT ![r] =
                      [@ EXCEPT !.engine = engine, !.preprocess = preprocess,
                                !.preprocess_mode = preprocess_mode,
                                !.n = n, !.i = 0, !.at = "loop"]]
    /\ running' = r
    /\ UNCHANGED <<handle, built, pc, fnVars, orderVars>>

\* top of the loop body: the preprocessing of page i + 1, outside the try
Preprocess(r) ==
    /\ req[r].at = "loop" /\ Scheduled(r)
    /\ req[r].i < req[r].n
    /\ IF req[r].preprocess
       THEN \E small \in BOOLEAN, dark \in BOOLEAN :
              LET res == SelectedPipeline(req[r].engine,
                                          req[r].preprocess_mode, small, dark)
              IN  IF res = <<>>
                  THEN \* unpacking None raises TypeError: unhandled, HTTP 500
                       /\ req' = [req EXCEPT ![r] =
                                     [@ EXCEPT !.prep_result = <<res>>,
                                               !.at = "failed",
                                               !.response =
                                                   <<Response(500, 0, <<>>)>>]]
                       /\ UNCHANGED running
                  ELSE /\ req' = [req EXCEPT ![r] =
                                     [@ EXCEPT !.prep_result = <<res>>,
                                               !.prep_meta =
                                                   PrepMeta(TRUE,
                                                       PrepTarget(req[r].engine),
                                                       res[1].meta),
                                               !.at = "ocr", !.k = 1]]
                       /\ UNCHANGED running
       ELSE /\ req' = [req EXCEPT ![r] =
                          [@ EXCEPT !.prep_result = <<>>,
                                    !.prep_meta = PrepMetaDisabled,
                                    !.at = "ocr", !.k = 1]]
            /\ UNCHANGED running
    /\ UNCHANGED <<handle, built, pc, fnVars, orderVars>>

\* _run_tesseract, or the getter's test "singleton is None"
EnterBackend(r) ==
    /\ req[r].at = "ocr" /\ Scheduled(r)
    /\ req' = [req EXCEPT ![r] =
                  [@ EXCEPT !.at = IF Backend(r) \in Handles
                                      /\ handle[Backend(r)] = None
                                   THEN "new" ELSE "use"]]
    /\ UNCHANGED <<running, handle, built, pc, fnVars, orderVars>>

\* the constructor returns and the getter stores the engine
ConstructOk(r) ==
    /\ req[r].at = "new" /\ Scheduled(r)
    /\ handle' = [handle EXCEPT ![Backend(r)] = "engine"]
    /\ built' = [built EXCEPT ![Backend(r)] = @ + 1]
    /\ req' = [req EXCEPT ![r] = [@ EXCEPT !.at = "use"]]
    /\ UNCHANGED <<running, pc, fnVars, orderVars>>

\* except Exception: HTTP 500 naming page_idx
Fail(r) ==
    /\ req' = [req EXCEPT ![r] =
                  [@ EXCEPT !.at = "failed", !.raised = req[r].i + 1,
                            !.response =
                                <<Response(500, PageIdx(req[r].i),
                                           <<>>)>>]]
    /\ UNCHANGED <<running, handle, built, pc, fnVars, orderVars>>

\* the package is missing or the constructor raises
ConstructRaise(r) ==
    /\ req[r].at = "new" /\ Scheduled(r)
    /\ Fail(r)

\* the backend returns; after the page's last backend page_res is appended
UseOk(r) ==
    /\ req[r].at = "use" /\ Scheduled(r)
    /\ IF req[r].k < Len(Backends(req[r].engine))
       THEN req' = [req EXCEPT ![r] = [@ EXCEPT !.k = @ + 1, !.at = "ocr"]]
       ELSE req' = [req EXCEPT ![r] =
                       [@ EXCEPT !.all_pages =
                                     Append(@, [page |-> PageIdx(req[r].i),
                                                preprocess |-> req[r].prep_meta]),
                                 !.i = @ + 1, !.at = "loop"]]
    /\ UNCHANGED <<running, handle, built, pc, fnVars, orderVars>>

UseRaise(r) ==
    /\ req[r].at = "use" /\ Scheduled(r)
    /\ Fail(r)

\* the loop is over: HTTP 200 with all pages
Respond(r) ==
    /\ req[r].at = "loop" /\ Scheduled(r)
    /\ req[r].i = req[r].n
    /\ req' = [req EXCEPT ![r] =
                  [@ EXCEPT !.at = "done",
                            !.response = <<Response(200, 0, req[r].all_pages)>>]]
    /\ UNCHANGED <<running, handle, built, pc, fnVars, orderVars>>

\* the response is handed to the server, the coroutine ends and the event
\* loop is free again; the slot serves the next request
Close(r) ==
    /\ req[r].at \in {"done", "failed"} /\ Scheduled(r)
    /\ req' = [req EXCEPT ![r] = NewRequest]
    /\ running' = 0
    /\ UNCHANGED <<handle, built, pc, fnVars, orderVars>>

NextHandler ==
    \/ \E r \in Requests : Receive(r)
    \/ \E r \in Requests : Reject(r)
    \/ \E r \in Requests : Resume(r)
    \/ \E r \in Requests : Preprocess(r)
    \/ \E r \in Requests : EnterBackend(r)
    \/ \E r \in Requests : ConstructOk(r)
    \/ \E r \in Requests : ConstructRaise(r)
    \/ \E r \in Requests : UseOk(r)
    \/ \E r \in Requests : UseRaise(r)
    \/ \E r \in Requests : Respond(r)
    \/ \E r \in Requests : Close(r)

SpecHandler == InitHandler /\ [][NextHandler]_vars

InConstructor(r, h) == req[r].at = "new" /\ Backend(r) = h

\* C12: each engine handle is stored at most once; no two requests are
\* inside the constructor of the same handle at once, and a request is
\* inside it only while the handle is unset, so a set handle is never
\* replaced.
C12_EnginesInitializedOnce ==
    \A h \in Handles :
        /\ built[h] <= 1
        /\ Cardinality({r \in Requests : InConstructor(r, h)}) <= 1
        /\ \A r \in Requests : InConstructor(r, h) => handle[h] = None
        /\ built[h] = 1 <=> handle[h] # None

\* one request is inside the PaddleOCR constructor while another request,
\* suspended on its body, is in flight
C12_Witness ==
    \E r1, r2 \in Requests :
        /\ r1 # r2
        /\ InConstructor(r1, "paddle_ocr")
        /\ req[r2].at = "await"

\* C13: pages are processed in the order 1..n; once a backend has raised
\* on a page the request has failed with HTTP 500 naming that page, with no
\* page results, and no later page has been processed.
C13_FirstFailingPageAborts ==
    \A r \in Requests :
        /\ Len(req[r].all_pages) = req[r].i
        /\ \A j \in 1..Len(req[r].all_pages) : req[r].all_pages[j].page = j
        /\ req[r].at = "done" =>
               req[r].response = <<Response(200, 0, req[r].all_pages)>>
               /\ Len(req[r].all_pages) = req[r].n
        /\ req[r].raised # 0 =>
               /\ req[r].at = "failed"
               /\ req[r].response = <<Response(500, req[r].raised, <<>>)>>
               /\ req[r].raised = req[r].i + 1

\* the backend raised on page 1 of a two-page document
C13_Witness ==
    \E r \in Requests :
        /\ req[r].raised = 1 /\ req[r].n = 2
        /\ req[r].response = <<Response(500, 1, <<>>)>>

\* the backend raised on page 2 after page 1 had been processed
C13_WitnessSecondPage ==
    \E r \in Requests :
        /\ req[r].raised = 2 /\ Len(req[r].all_pages) = 1
        /\ req[r].response = <<Response(500, 2, <<>>)>>

\* C14: whenever preprocessing is enabled, the pipeline the handler
\* selects returns a processed image and a trace naming the mode and
\* every applied step.
C14_PipelineAlwaysYieldsResult ==
    \A r \in Requests :
        req[r].prep_result # <<>> =>
            LET res == req[r].prep_result[1]
            IN  IF res = <<>>
                THEN FALSE
                ELSE /\ res[1].meta.mode = req[r].preprocess_mode
                     /\ res[1].meta.steps = res[1].image.applied

====
